---- MODULE Spec2Model ----
(***************************************************************************)
(* BLE gateway (src/gateway.py): a BLEGateway object owns one MQTT client  *)
(* handle, two per-address decoder maps (Govee, ThermoPro) and a running   *)
(* flag.  run() connects to the broker, starts the BLE scanner, polls the  *)
(* running flag once a second and finally releases the broker.  The        *)
(* scanner delivers advertisements to detection_callback, which routes     *)
(* them through the vendor decoders and publishes the readings.            *)
(*                                                                         *)
(* Text is modelled as sequences of one-character strings, so that         *)
(* lower(), replace() and str() are computed character by character.       *)
(* Numbers delivered by the decoders are [t, h]: t is the Python type      *)
(* ("int" or "float") and h the value in hundredths.                       *)
(***************************************************************************)
EXTENDS Integers, Sequences, FiniteSets, TLC

VARIABLES
    pc,                \* position of main()/run()
    mqtt_client,       \* BLEGateway.mqtt_client: "None" or "client"
    govee_parsers,     \* BLEGateway.govee_parsers: address -> decoder instance
    thermopro_parsers, \* BLEGateway.thermopro_parsers: address -> decoder instance
    running,           \* BLEGateway.running
    broker,            \* the paho client: [connected, loop]
    scanner,           \* the BleakScanner context: "off", "on", "stopped"
    nextId,            \* identity of the next decoder object constructed
    adsSeen,           \* number of advertisements delivered so far
    published,         \* every mqtt_client.publish call, in call order
    last,              \* what the latest detection_callback invocation did
    events,            \* broker and scanner lifecycle calls, in call order
    stopInRun,         \* stop() was called after run() had been entered
    threads,           \* detection_callback invocations in flight (ThreadedSpec)
    exit_code          \* "none", "0" (main returned 0) or "raised"

vars == <<pc, mqtt_client, govee_parsers, thermopro_parsers, running, broker,
          scanner, nextId, adsSeen, published, last, events, stopInRun, threads,
          exit_code>>

gatewayVars == <<mqtt_client, govee_parsers, thermopro_parsers, running>>
runVars == <<pc, broker, scanner, events, exit_code>>
adVars == <<govee_parsers, thermopro_parsers, nextId, adsSeen, published, last, threads>>

----------------------------------------------------------------------------
(* Bounds of the model *)

\* advertisements delivered in one run
MaxAds == 2

\* direct calls of publish_sensor_data explored by FormatSpec
MaxCalls == 1

----------------------------------------------------------------------------
(* Text *)

UpperChars == <<"A","B","C","D","E","F","G","H","I","J","K","L","M",
                "N","O","P","Q","R","S","T","U","V","W","X","Y","Z">>
LowerChars == <<"a","b","c","d","e","f","g","h","i","j","k","l","m",
                "n","o","p","q","r","s","t","u","v","w","x","y","z">>
DigitChars == <<"0","1","2","3","4","5","6","7","8","9">>

\* str.lower() on one character
LowerChar(c) ==
    IF \E i \in 1..Len(UpperChars) : UpperChars[i] = c
    THEN LowerChars[CHOOSE i \in 1..Len(UpperChars) : UpperChars[i] = c]
    ELSE c

\* str.lower()
StrLower(s) == [i \in 1..Len(s) |-> LowerChar(s[i])]

\* str.replace(old, new) for one-character old and new
StrReplace(s, old, new) == [i \in 1..Len(s) |-> IF s[i] = old THEN new ELSE s[i]]

\* str(n) for a natural number
RECURSIVE NatStr(_)
NatStr(n) == IF n < 10 THEN <<DigitChars[n + 1]>>
             ELSE NatStr(n \div 10) \o <<DigitChars[(n % 10) + 1]>>

Abs(n) == IF n < 0 THEN -n ELSE n

\* str(n) for a Python int
IntStr(n) == IF n < 0 THEN <<"-">> \o NatStr(-n) ELSE NatStr(n)

----------------------------------------------------------------------------
(* Numbers: [t |-> "int" | "float", h |-> value in hundredths] *)

PyFloat(h) == [t |-> "float", h |-> h]
PyInt(n) == [t |-> "int", h |-> n * 100]

\* round(value, 1): an int is returned unchanged (and stays an int); a float
\* is rounded to the nearest tenth, an exact tie going to the even tenth.
\* The sign of a float survives rounding to zero (round(-0.04, 1) is -0.0).
RoundHalfEvenTenths(h) ==
    LET q == Abs(h) \div 10
        r == Abs(h) % 10
    IN  IF r < 5 THEN q
        ELSE IF r > 5 THEN q + 1
        ELSE IF q % 2 = 0 THEN q ELSE q + 1

Round1(value) ==
    IF value.t = "int" THEN value
    ELSE [t |-> "float", h |-> 10 * RoundHalfEvenTenths(value.h),
          neg |-> value.h < 0]

\* an int() that rounds to the nearest integer
IntOfNearest(value) ==
    LET n == (Abs(value.h) + 50) \div 100
    IN  IF value.h < 0 THEN -n ELSE n

\* int(value): truncation toward zero
IntOf(value) ==
    IF value.h < 0 THEN -(Abs(value.h) \div 100) ELSE value.h \div 100

\* str() of what Round1 returns: str(int) has no fraction, str(float) of a
\* multiple of a tenth has exactly one fraction digit
NumStr(x) ==
    IF x.t = "int" THEN IntStr(x.h \div 100)
    ELSE (IF x.neg THEN <<"-">> ELSE <<>>)
         \o NatStr(x.h \div 100) \o <<".">> \o <<DigitChars[((x.h \div 10) % 10) + 1]>>

----------------------------------------------------------------------------
(* config.py *)

MQTT_TOPIC_PREFIX == <<"s","e","n","s","o","r","s">>

\* result codes of mqtt_client.publish: success, and one that is not
MQTT_ERR_SUCCESS == "MQTT_ERR_SUCCESS"
ResultCodes == {MQTT_ERR_SUCCESS, "MQTT_ERR_NO_CONN"}

KindStr(sensor_type) ==
    CASE sensor_type = "temperature" -> <<"t","e","m","p","e","r","a","t","u","r","e">>
      [] sensor_type = "humidity"    -> <<"h","u","m","i","d","i","t","y">>
      [] sensor_type = "battery"     -> <<"b","a","t","t","e","r","y">>

----------------------------------------------------------------------------
(* What the decoders deliver.  The vendor decoders are external: update()  *)
(* returns any of the results below.  A result is the sequence of its      *)
(* entity_values items, in dict order; an item carries the device class of *)
(* its description, or "none" when entity_descriptions has no entry for    *)
(* the key.                                                                *)

Entity(device_class, native_value) ==
    [device_class |-> device_class, native_value |-> native_value]

NoUpdate == <<>>

Updates == {
    NoUpdate,
    <<Entity("temperature", PyFloat(2134)), Entity("humidity", PyFloat(5560))>>,
    <<Entity("signal_strength", PyInt(-60))>>,
    <<Entity("none", PyFloat(2134)), Entity("battery", PyFloat(8790))>> }

Addresses == { <<"A","4","-","0","1">>, <<"a","4",":","0","1">>, <<"b","4",":","0","2">> }

SensorTypes == {"temperature", "humidity", "battery"}

----------------------------------------------------------------------------
(* BLEGateway.publish_sensor_data *)

\* a mac whose separators are replaced but whose case is kept
MacCaseKept(address) == StrReplace(address, "-", ":")

\* a mac that is lowercased only
MacLowerOnly(address) == StrLower(address)

Mac(address) == StrReplace(StrLower(address), "-", ":")

Topic(address, sensor_type) ==
    MQTT_TOPIC_PREFIX \o <<"/">> \o Mac(address) \o <<"/">> \o KindStr(sensor_type)

Payload(sensor_type, value) ==
    IF sensor_type # "battery" THEN NumStr(Round1(value)) ELSE IntStr(IntOf(value))

\* a publish without the retain flag
RetainFlagUnset == FALSE

RetainFlag == TRUE

\* The publish call and the log line that follows it.  rc is what the broker
\* client returns for this call.
PublishSensorData(address, sensor_type, value, rc) ==
    [pubs |-> << [topic |-> Topic(address, sensor_type),
                  payload |-> Payload(sensor_type, value),
                  retain |-> RetainFlag,
                  rc |-> rc,
                  address |-> address,
                  sensor_type |-> sensor_type,
                  value |-> value,
                  handle |-> mqtt_client,
                  connected |-> broker.connected] >>,
     log |-> << IF rc = MQTT_ERR_SUCCESS
                THEN [level |-> "debug", what |-> "published"]
                ELSE [level |-> "error", what |-> "publish_failed"] >>]

----------------------------------------------------------------------------
(* BLEGateway.process_sensor_update *)

\* the body of the for loop for one entity_values item; rc is the result code
\* the broker returns if the item is published
ProcessEntity(address, entity, rc) ==
    IF entity.device_class \in SensorTypes
    THEN LET p == PublishSensorData(address, entity.device_class, entity.native_value, rc)
         IN  [pubs |-> p.pubs,
              log |-> p.log \o <<[level |-> "info", what |-> entity.device_class]>>]
    ELSE [pubs |-> <<>>, log |-> <<>>]

\* a for loop that handles the items last to first
RECURSIVE ProcessEntitiesReversed(_, _, _, _)
ProcessEntitiesReversed(address, update, rcs, i) ==
    IF i > Len(update) THEN [pubs |-> <<>>, log |-> <<>>]
    ELSE LET head == ProcessEntity(address, update[i], rcs[i])
             rest == ProcessEntitiesReversed(address, update, rcs, i + 1)
         IN  [pubs |-> rest.pubs \o head.pubs, log |-> rest.log \o head.log]

\* a for loop that gives up at the first publish the broker refuses
RECURSIVE ProcessEntitiesUntilFailure(_, _, _, _)
ProcessEntitiesUntilFailure(address, update, rcs, i) ==
    IF i > Len(update) THEN [pubs |-> <<>>, log |-> <<>>]
    ELSE LET head == ProcessEntity(address, update[i], rcs[i])
             rest == IF head.pubs # <<>> /\ rcs[i] # MQTT_ERR_SUCCESS
                     THEN [pubs |-> <<>>, log |-> <<>>]
                     ELSE ProcessEntitiesUntilFailure(address, update, rcs, i + 1)
         IN  [pubs |-> head.pubs \o rest.pubs, log |-> head.log \o rest.log]

RECURSIVE ProcessEntities(_, _, _, _)
ProcessEntities(address, update, rcs, i) ==
    IF i > Len(update) THEN [pubs |-> <<>>, log |-> <<>>]
    ELSE LET head == ProcessEntity(address, update[i], rcs[i])
             rest == ProcessEntities(address, update, rcs, i + 1)
         IN  [pubs |-> head.pubs \o rest.pubs, log |-> head.log \o rest.log]

DeviceLine(address) == [level |-> "info", what |-> "device", address |-> address]

\* process_sensor_update whose result is never truthy
ProcessSensorUpdateNoMatch(address, update, rcs) ==
    IF update = <<>>
    THEN [ret |-> FALSE, pubs |-> <<>>, log |-> <<>>]
    ELSE LET r == ProcessEntities(address, update, rcs, 1)
         IN  [ret |-> FALSE, pubs |-> r.pubs, log |-> <<DeviceLine(address)>> \o r.log]

\* ret is the value returned, pubs the publish calls made, log the lines logged
ProcessSensorUpdate(address, update, rcs) ==
    IF update = <<>>
    THEN [ret |-> FALSE, pubs |-> <<>>, log |-> <<>>]
    ELSE LET r == ProcessEntities(address, update, rcs, 1)
         IN  [ret |-> TRUE, pubs |-> r.pubs, log |-> <<DeviceLine(address)>> \o r.log]

----------------------------------------------------------------------------
(* Decoder maps *)

\* a decoder object: its identity and the number of update() calls it received
NewParser(id) == [id |-> id, fed |-> 0]

\* a get-or-create that constructs a decoder on every call
GetParserAlwaysNew(parsers, address, id) ==
    (address :> NewParser(id)) @@ parsers

\* get_govee_parser / get_thermopro_parser: the map after the call
GetParser(parsers, address, id) ==
    IF address \notin DOMAIN parsers
    THEN parsers @@ (address :> NewParser(id))
    ELSE parsers

get_govee_parser(address) == GetParser(govee_parsers, address, nextId)

get_thermopro_parser(address, id) == GetParser(thermopro_parsers, address, id)

\* an update() that reaches every decoder of the map
FeedEveryParser(parsers, address) ==
    [a \in DOMAIN parsers |-> [parsers[a] EXCEPT !.fed = @ + 1]]

\* parser.update(service_info) on the instance keyed by address
FeedParser(parsers, address) ==
    [parsers EXCEPT ![address].fed = @ + 1]

\* number of decoder objects constructed by a get-or-create call
Constructed(before, after) == Cardinality(DOMAIN after) - Cardinality(DOMAIN before)

----------------------------------------------------------------------------
(* BLEGateway.detection_callback *)

\* last: the address handled, the vendors whose update() was called (in call
\* order) with what each returned, the decoder object each call went to, the
\* vendors whose decoder object was constructed, the publish calls made for
\* each vendor's result, the lines logged, and Len(published) on entry
NoAd == [address |-> <<>>, tried |-> <<>>, updates |-> <<>>, insts |-> <<>>,
         created |-> {}, npubs |-> <<>>, log |-> <<>>, from |-> 0]

\* a scanner that delivers whenever the process is alive
CallbackMayRunAnytime == pc # "exited"

\* the callback is run by the event loop, i.e. while run() is suspended in an
\* await with the scanner registered
CallbackMayRun == scanner = "on" /\ pc \in {"sleep", "scanner_stop"}

DetectionCallback ==
    /\ CallbackMayRun
    /\ adsSeen < MaxAds
    /\ \E address \in Addresses, govee_update \in Updates :
       \E grcs \in [1..Len(govee_update) -> ResultCodes] :
         LET gmap == get_govee_parser(address)
             gid  == nextId + Constructed(govee_parsers, gmap)
             g    == ProcessSensorUpdate(address, govee_update, grcs)
         IN  /\ govee_parsers' = FeedParser(gmap, address)
             /\ IF g.ret
                THEN /\ thermopro_parsers' = thermopro_parsers
                     /\ nextId' = gid
                     /\ published' = published \o g.pubs
                     /\ last' = [address |-> address,
                                 tried |-> <<"govee">>,
                                 updates |-> <<govee_update>>,
                                 insts |-> <<gmap[address].id>>,
                                 created |-> IF gid > nextId THEN {"govee"} ELSE {},
                                 npubs |-> <<Len(g.pubs)>>,
                                 log |-> g.log,
                                 from |-> Len(published)]
                ELSE \E thermopro_update \in Updates :
                     \E trcs \in [1..Len(thermopro_update) -> ResultCodes] :
                       LET tmap == get_thermopro_parser(address, gid)
                           t    == ProcessSensorUpdate(address, thermopro_update, trcs)
                       IN  /\ thermopro_parsers' = FeedParser(tmap, address)
                           /\ nextId' = gid + Constructed(thermopro_parsers, tmap)
                           /\ published' = published \o g.pubs \o t.pubs
                           /\ last' = [address |-> address,
                                       tried |-> <<"govee", "thermopro">>,
                                       updates |-> <<govee_update, thermopro_update>>,
                                       insts |-> <<gmap[address].id, tmap[address].id>>,
                                       created |->
                                           (IF gid > nextId THEN {"govee"} ELSE {})
                                           \cup (IF Constructed(thermopro_parsers, tmap) > 0
                                                 THEN {"thermopro"} ELSE {}),
                                       npubs |-> <<Len(g.pubs), Len(t.pubs)>>,
                                       log |-> g.log \o t.log,
                                       from |-> Len(published)]
    /\ adsSeen' = adsSeen + 1
    /\ UNCHANGED <<pc, mqtt_client, running, broker, scanner, events, stopInRun,
                   threads, exit_code>>

----------------------------------------------------------------------------
(* BLEGateway.run, BLEGateway.setup_mqtt and main *)

\* main: asyncio.run(gateway.run()) enters run
MainRun ==
    /\ pc = "init"
    /\ pc' = "setup_mqtt"
    /\ UNCHANGED <<mqtt_client, running, broker, scanner, events, stopInRun, exit_code>>
    /\ UNCHANGED adVars

\* client.connect(): returns, or raises when the broker cannot be reached;
\* nothing in run or main catches the exception
SetupMqttConnect ==
    /\ pc = "setup_mqtt"
    /\ \/ /\ pc' = "connected"
          /\ broker' = [broker EXCEPT !.connected = TRUE]
          /\ events' = Append(events, "connect")
          /\ UNCHANGED exit_code
       \/ /\ pc' = "exited"
          /\ exit_code' = "raised"
          /\ UNCHANGED <<broker, events>>
    /\ UNCHANGED <<mqtt_client, running, scanner, stopInRun>>
    /\ UNCHANGED adVars

\* client.loop_start(), and run storing the client setup_mqtt returns
SetupMqttLoopStart ==
    /\ pc = "connected"
    /\ pc' = "set_running"
    /\ broker' = [broker EXCEPT !.loop = TRUE]
    /\ events' = Append(events, "loop_start")
    /\ mqtt_client' = "client"
    /\ UNCHANGED <<running, scanner, stopInRun, exit_code>>
    /\ UNCHANGED adVars

\* self.running = True
RunSetRunning ==
    /\ pc = "set_running"
    /\ pc' = "scanner_start"
    /\ running' = TRUE
    /\ UNCHANGED <<mqtt_client, broker, scanner, events, stopInRun, exit_code>>
    /\ UNCHANGED adVars

\* async with BleakScanner(...): entering starts the scanner, or raises
RunScannerStart ==
    /\ pc = "scanner_start"
    /\ \/ /\ pc' = "loop"
          /\ scanner' = "on"
          /\ events' = Append(events, "scanner_start")
          /\ UNCHANGED exit_code
       \/ /\ pc' = "exited"
          /\ exit_code' = "raised"
          /\ UNCHANGED <<scanner, events>>
    /\ UNCHANGED <<mqtt_client, running, broker, stopInRun>>
    /\ UNCHANGED adVars

\* a loop that runs its body once, whatever the flag
RunLoopTestOnce ==
    /\ pc = "loop"
    /\ pc' = "scanner_stop"
    /\ UNCHANGED <<mqtt_client, running, broker, scanner, events, stopInRun, exit_code>>
    /\ UNCHANGED adVars

\* while self.running
RunLoopTest ==
    /\ pc = "loop"
    /\ pc' = IF running THEN "sleep" ELSE "scanner_stop"
    /\ UNCHANGED <<mqtt_client, running, broker, scanner, events, stopInRun, exit_code>>
    /\ UNCHANGED adVars

\* await asyncio.sleep(1)
RunSleep ==
    /\ pc = "sleep"
    /\ pc' = "loop"
    /\ UNCHANGED <<mqtt_client, running, broker, scanner, events, stopInRun, exit_code>>
    /\ UNCHANGED adVars

\* leaving the async with block stops the scanner, or raises
RunScannerStop ==
    /\ pc = "scanner_stop"
    /\ \/ /\ pc' = "loop_stop"
          /\ scanner' = "stopped"
          /\ events' = Append(events, "scanner_stop")
          /\ UNCHANGED exit_code
       \/ /\ pc' = "exited"
          /\ exit_code' = "raised"
          /\ UNCHANGED <<scanner, events>>
    /\ UNCHANGED <<mqtt_client, running, broker, stopInRun>>
    /\ UNCHANGED adVars

\* self.mqtt_client.loop_stop()
RunLoopStop ==
    /\ pc = "loop_stop"
    /\ pc' = "disconnect"
    /\ broker' = [broker EXCEPT !.loop = FALSE]
    /\ events' = Append(events, "loop_stop")
    /\ UNCHANGED <<mqtt_client, running, scanner, stopInRun, exit_code>>
    /\ UNCHANGED adVars

\* self.mqtt_client.disconnect()
RunDisconnect ==
    /\ pc = "disconnect"
    /\ pc' = "returned"
    /\ broker' = [broker EXCEPT !.connected = FALSE]
    /\ events' = Append(events, "disconnect")
    /\ UNCHANGED <<mqtt_client, running, scanner, stopInRun, exit_code>>
    /\ UNCHANGED adVars

\* main: asyncio.run returned; return 0
MainReturn ==
    /\ pc = "returned"
    /\ pc' = "exited"
    /\ exit_code' = "0"
    /\ UNCHANGED <<mqtt_client, running, broker, scanner, events, stopInRun>>
    /\ UNCHANGED adVars

\* a stop that flips the flag
StopToggle ==
    /\ pc # "exited"
    /\ running' = ~running
    /\ stopInRun' = (stopInRun \/ pc # "init")
    /\ UNCHANGED <<pc, mqtt_client, broker, scanner, events, exit_code>>
    /\ UNCHANGED adVars

\* BLEGateway.stop, called by main's signal_handler on SIGINT or SIGTERM.  The
\* handler is installed before run is entered and runs between any two steps
\* of the main thread.
Stop ==
    /\ pc # "exited"
    /\ running' = FALSE
    /\ stopInRun' = (stopInRun \/ pc # "init")
    /\ UNCHANGED <<pc, mqtt_client, broker, scanner, events, exit_code>>
    /\ UNCHANGED adVars

----------------------------------------------------------------------------
(* BLEGateway.__init__ and the start of main *)

Init ==
    /\ pc = "init"
    /\ mqtt_client = "None"
    /\ govee_parsers = <<>>
    /\ thermopro_parsers = <<>>
    /\ running = FALSE
    /\ broker = [connected |-> FALSE, loop |-> FALSE]
    /\ scanner = "off"
    /\ nextId = 1
    /\ adsSeen = 0
    /\ published = <<>>
    /\ last = NoAd
    /\ events = <<>>
    /\ stopInRun = FALSE
    /\ threads = <<>>
    /\ exit_code = "none"

RunStep ==
    \/ MainRun
    \/ SetupMqttConnect
    \/ SetupMqttLoopStart
    \/ RunSetRunning
    \/ RunScannerStart
    \/ RunLoopTest
    \/ RunSleep
    \/ RunScannerStop
    \/ RunLoopStop
    \/ RunDisconnect
    \/ MainReturn

Next ==
    \/ RunStep
    \/ DetectionCallback
    \/ Stop

Spec == Init /\ [][Next]_vars

----------------------------------------------------------------------------
(* publish_sensor_data on its own: the gateway is scanning, and the method *)
(* is called with any address, kind and value of the sets below.           *)

FormatAddresses == {
    <<"A","4","-","C","1">>, <<"a","4",":","c","1">>,
    <<"A","4",":","c","1">>, <<"a","4","-","C","1">>,
    <<"b","4",":","c","1">>, <<"F","-","0","E","-","9","d">> }

\* Floats are given in hundredths.  A hundredth ending in 5 is on the list
\* only when the float holds it exactly (x.25, x.75), where round() takes the
\* even tenth; for the others round() depends on the binary expansion.
FormatValues ==
    { PyFloat(h) : h \in {2134, 5560, 8790, 2125, 2175, 996, 2000, 0, 7, -4, -1996, 10049} }
    \cup { PyInt(n) : n \in {21, 45, 100, 0, -5} }

InitScanning ==
    /\ pc = "sleep"
    /\ mqtt_client = "client"
    /\ govee_parsers = <<>>
    /\ thermopro_parsers = <<>>
    /\ running = TRUE
    /\ broker = [connected |-> TRUE, loop |-> TRUE]
    /\ scanner = "on"
    /\ nextId = 1
    /\ adsSeen = 0
    /\ published = <<>>
    /\ last = NoAd
    /\ events = <<"connect", "loop_start", "scanner_start">>
    /\ stopInRun = FALSE
    /\ threads = <<>>
    /\ exit_code = "none"

CallPublishSensorData ==
    /\ Len(published) < MaxCalls
    /\ \E address \in FormatAddresses, sensor_type \in SensorTypes,
          value \in FormatValues, rc \in ResultCodes :
          published' = published \o PublishSensorData(address, sensor_type, value, rc).pubs
    /\ UNCHANGED <<pc, mqtt_client, govee_parsers, thermopro_parsers, running, broker,
                   scanner, nextId, adsSeen, last, events, stopInRun,
                   threads, exit_code>>

FormatSpec == InitScanning /\ [][CallPublishSensorData]_vars

\* The main thread keeps running: a pending step of run or main is eventually
\* taken (asyncio.sleep(1) returns, a collaborator call returns or raises).
\* Signals and advertisements come from outside and need never arrive.
FairSpec == Init /\ [][Next]_vars /\ WF_vars(RunStep)

----------------------------------------------------------------------------
(* Vocabulary of the properties *)

\* a reading: a value whose description names temperature, humidity or battery
IsReading(entity) == entity.device_class \in {"temperature", "humidity", "battery"}

HasReading(update) == \E i \in 1..Len(update) : IsReading(update[i])

NumReadings(update) == Cardinality({i \in 1..Len(update) : IsReading(update[i])})

\* the step is one detection_callback invocation
IsCallbackStep == adsSeen' = adsSeen + 1

\* the publish calls of the latest advertisement
LastPubs == SubSeq(published, last.from + 1, Len(published))

HandledAd == last.address # <<>>

----------------------------------------------------------------------------
(* C1: first match wins.  For every advertisement handled, the Govee       *)
(* decoder is the first one called; if the Govee result holds a reading,   *)
(* the ThermoPro decoder's update is not called and no ThermoPro decoder   *)
(* object is constructed by this advertisement; and the publishes of one   *)
(* advertisement come from at most one vendor's result.                    *)

C1_FirstMatchWins ==
    HandledAd =>
        /\ last.tried[1] = "govee"
        /\ HasReading(last.updates[1]) =>
               /\ last.tried = <<"govee">>
               /\ "thermopro" \notin last.created
        /\ Cardinality({i \in 1..Len(last.npubs) : last.npubs[i] > 0}) <= 1
        /\ Len(LastPubs) > 0 =>
               \E i \in 1..Len(last.tried) :
                   /\ Len(LastPubs) = NumReadings(last.updates[i])
                   /\ \A j \in 1..Len(last.tried) : j # i => last.npubs[j] = 0

\* a Govee result with readings was published, and the address has no
\* ThermoPro decoder
C1_Witness ==
    /\ HandledAd
    /\ HasReading(last.updates[1])
    /\ Len(LastPubs) > 0
    /\ last.address \notin DOMAIN thermopro_parsers

----------------------------------------------------------------------------
(* C2: decoder-state identity.  Every decoder object ever constructed is   *)
(* still in its map, under one (address, vendor) key, and no two keys      *)
(* share an object; an entry, once present, keeps its object in every      *)
(* step; an entry appears only in the callback handling its own address,   *)
(* which is the first update() it receives; and every update() call of a   *)
(* callback goes to the object the vendor's map holds for that address.    *)

ParsersOf(vendor) == IF vendor = "govee" THEN govee_parsers ELSE thermopro_parsers

\* the vendor's map after the step
ParsersOfNext(vendor) == IF vendor = "govee" THEN govee_parsers' ELSE thermopro_parsers'

Vendors == {"govee", "thermopro"}

ParserKeys == {<<v, a>> \in Vendors \X Addresses : a \in DOMAIN ParsersOf(v)}

C2_OneObjectPerKey ==
    /\ nextId - 1 = Cardinality(ParserKeys)
    /\ \A k1, k2 \in ParserKeys :
          ParsersOf(k1[1])[k1[2]].id = ParsersOf(k2[1])[k2[2]].id => k1 = k2

C2_Step ==
    /\ \A v \in Vendors : \A a \in DOMAIN ParsersOf(v) :
          /\ a \in DOMAIN ParsersOfNext(v)
          /\ ParsersOfNext(v)[a].id = ParsersOf(v)[a].id
    /\ \A v \in Vendors : \A a \in DOMAIN ParsersOfNext(v) \ DOMAIN ParsersOf(v) :
          /\ IsCallbackStep
          /\ last'.address = a
          /\ ParsersOfNext(v)[a].fed = 1
    /\ IsCallbackStep =>
          \A i \in 1..Len(last'.tried) :
             LET v == last'.tried[i]
                 a == last'.address
             IN  /\ a \in DOMAIN ParsersOfNext(v)
                 /\ last'.insts[i] = ParsersOfNext(v)[a].id
                 /\ ParsersOfNext(v)[a].fed =
                       (IF a \in DOMAIN ParsersOf(v) THEN ParsersOf(v)[a].fed ELSE 0) + 1

C2_DecoderIdentity == []C2_OneObjectPerKey /\ [][C2_Step]_vars

\* a second advertisement of an address went to the object its first
\* advertisement created, while another decoder object exists
C2_Witness ==
    /\ HandledAd
    /\ last.address \in DOMAIN govee_parsers
    /\ govee_parsers[last.address].fed >= 2
    /\ last.insts[1] = govee_parsers[last.address].id
    /\ last.created = {}
    /\ nextId > 2

----------------------------------------------------------------------------
(* C3: frame of a callback.  A callback handling address X leaves, in both *)
(* vendor maps, the entry of every other address as it was: not created,   *)
(* not removed, not replaced and not fed.                                  *)

C3_Step ==
    IsCallbackStep =>
        \A v \in Vendors : \A a \in Addresses \ {last'.address} :
            /\ a \in DOMAIN ParsersOf(v) <=> a \in DOMAIN ParsersOfNext(v)
            /\ a \in DOMAIN ParsersOf(v) => ParsersOfNext(v)[a] = ParsersOf(v)[a]

C3_OtherAddressesUntouched == [][C3_Step]_vars

\* the latest callback ran while another address already had a decoder, which
\* still has received one update only
C3_Witness ==
    /\ HandledAd
    /\ \E a \in DOMAIN govee_parsers :
          /\ a # last.address
          /\ govee_parsers[a].fed = 1
          /\ last.address \in DOMAIN govee_parsers

----------------------------------------------------------------------------
(* C4: discard of unrecognised traffic.  A callback in which no decoder    *)
(* result holds a reading makes no publish call, logs no line naming the   *)
(* device, and leaves the running flag, the client handle and the broker   *)
(* connection as they were.                                                *)
(* The device line fails: process_sensor_update logs it for any non-empty  *)
(* entity_values, before it looks for readings.                            *)

C4_Step ==
    (IsCallbackStep /\ \A i \in 1..Len(last'.updates) : ~HasReading(last'.updates[i])) =>
        /\ published' = published
        /\ \A i \in 1..Len(last'.log) : last'.log[i].what # "device"
        /\ running' = running
        /\ mqtt_client' = mqtt_client
        /\ broker' = broker

C4_DiscardUnrecognised == [][C4_Step]_vars

----------------------------------------------------------------------------
(* C5: graceful stop is live.  Once stop has been called after run was     *)
(* entered, main eventually ends (the formula leaves open how: it is       *)
(* implied by the claim, which asks for a return with exit code 0).        *)
(* It fails: a stop that arrives before run executes self.running = True   *)
(* is overwritten, and the loop then never ends.                           *)

C5_StopIsLive == stopInRun ~> (exit_code # "none")

----------------------------------------------------------------------------
(* C6: guaranteed release.  Whenever the process has ended after the       *)
(* broker connection was established, loop_stop and disconnect have been   *)
(* called.                                                                 *)
(* It fails: run has no try/finally, so an exception raised by the scanner *)
(* leaves run without releasing the broker.                                *)

Called(event) == \E i \in 1..Len(events) : events[i] = event

C6_ReleasedOnExit ==
    (pc = "exited" /\ Called("connect")) => (Called("loop_stop") /\ Called("disconnect"))

----------------------------------------------------------------------------
(* C7: lifecycle ordering.  The collaborator calls of a run are made in    *)
(* the order connect, loop_start, scanner start, scanner stop, loop_stop,  *)
(* disconnect; the phase changes only along STOPPED -> CONNECTING ->       *)
(* SCANNING -> DRAINING -> STOPPED, or ends in ABORTED when connect or the *)
(* scanner raises during CONNECTING or DRAINING; and SCANNING is left only *)
(* with the running flag false.                                            *)

LifecycleOrder ==
    <<"connect", "loop_start", "scanner_start", "scanner_stop", "loop_stop", "disconnect">>

Phase ==
    CASE pc = "init" -> "STOPPED"
      [] pc \in {"setup_mqtt", "connected", "set_running", "scanner_start"} -> "CONNECTING"
      [] pc \in {"loop", "sleep"} -> "SCANNING"
      [] pc \in {"scanner_stop", "loop_stop", "disconnect"} -> "DRAINING"
      [] pc = "returned" -> "STOPPED"
      [] pc = "exited" -> IF exit_code = "0" THEN "STOPPED" ELSE "ABORTED"

PhaseEdges ==
    { <<"STOPPED", "CONNECTING">>, <<"CONNECTING", "SCANNING">>,
      <<"SCANNING", "DRAINING">>, <<"DRAINING", "STOPPED">>,
      <<"CONNECTING", "ABORTED">>, <<"DRAINING", "ABORTED">> }

C7_Step ==
    /\ Phase' # Phase => <<Phase, Phase'>> \in PhaseEdges
    /\ (Phase = "SCANNING" /\ Phase' # "SCANNING") => ~running
    /\ (Phase = "STOPPED" /\ Phase' # "STOPPED") => pc = "init"
    /\ events' # events =>
          /\ Len(events') = Len(events) + 1
          /\ Len(events') <= Len(LifecycleOrder)
          /\ events' = SubSeq(LifecycleOrder, 1, Len(events'))
    /\ (scanner' = "on") <=> (Called("scanner_start")' /\ ~Called("scanner_stop")')
    /\ (Phase' = "SCANNING") => (scanner' = "on" /\ broker'.connected /\ broker'.loop)

C7_LifecycleOrder == [][C7_Step]_vars

\* a run that went through every phase and returned 0
C7_Witness == exit_code = "0" /\ events = LifecycleOrder /\ ~running

----------------------------------------------------------------------------
(* C8: a failed publish is neither fatal nor retried.  In every callback,  *)
(* each decoder result that is processed causes one publish call per       *)
(* reading, in order, with the reading's kind and value, whatever result   *)
(* codes the broker returns; the running flag, the client handle and the   *)
(* broker connection are unchanged; and the decoder maps change as the     *)
(* routing alone demands (the address gains an entry, which receives one   *)
(* update).  This holds in every reachable state, so also for the          *)
(* advertisement that follows a failed publish.                            *)

\* the readings of an update, in order
Readings(update) == SelectSeq(update, IsReading)

ReadingsTried(ad) ==
    IF Len(ad.updates) = 1 THEN Readings(ad.updates[1])
    ELSE Readings(ad.updates[1]) \o Readings(ad.updates[2])

C8_Step ==
    IsCallbackStep =>
        LET new == SubSeq(published', Len(published) + 1, Len(published'))
            due == ReadingsTried(last')
        IN  /\ SubSeq(published', 1, Len(published)) = published
            /\ Len(new) = Len(due)
            /\ \A i \in 1..Len(new) :
                  /\ new[i].sensor_type = due[i].device_class
                  /\ new[i].value = due[i].native_value
                  /\ new[i].address = last'.address
            /\ \A i \in 1..Len(last'.tried) :
                  last'.npubs[i] = Len(Readings(last'.updates[i]))
            /\ running' = running
            /\ mqtt_client' = mqtt_client
            /\ broker' = broker
            /\ \A v \in Vendors :
                  LET a == last'.address
                      routed == \E i \in 1..Len(last'.tried) : last'.tried[i] = v
                  IN  IF routed
                      THEN /\ DOMAIN ParsersOfNext(v) = DOMAIN ParsersOf(v) \cup {a}
                           /\ ParsersOfNext(v)[a].fed =
                                 (IF a \in DOMAIN ParsersOf(v) THEN ParsersOf(v)[a].fed ELSE 0) + 1
                      ELSE ParsersOfNext(v) = ParsersOf(v)

C8_PublishFailureNonFatal == [][C8_Step]_vars

\* the first publish of an advertisement failed, its second reading was
\* published all the same, and the next advertisement published too, with
\* the gateway still running
C8_Witness ==
    /\ last.from = 2
    /\ published[1].rc # MQTT_ERR_SUCCESS
    /\ published[1].sensor_type = "temperature"
    /\ published[2].sensor_type = "humidity"
    /\ Len(published) > 2
    /\ running
    /\ mqtt_client = "client"

----------------------------------------------------------------------------
(* C9: topic derivation.  The topic of every publish is the prefix, "/",   *)
(* the address segment, "/", the kind; the address segment has the length  *)
(* of the address given and holds, position by position, ":" for "-", the  *)
(* lowercase letter for an uppercase letter and the character itself       *)
(* otherwise; the kind is temperature, humidity or battery; and an address *)
(* that differs from the one given only in letter case or in "-" against   *)
(* ":" has the same topic.                                                 *)

IsUpper(c) == \E i \in 1..Len(UpperChars) : UpperChars[i] = c

\* c and d are the same letter in either case, or both a separator, or equal
SameCharModuloCaseSep(c, d) ==
    \/ c = d
    \/ {c, d} = {"-", ":"}
    \/ \E i \in 1..Len(UpperChars) : {c, d} = {UpperChars[i], LowerChars[i]}

SameModuloCaseSep(a, b) ==
    /\ Len(a) = Len(b)
    /\ \A i \in 1..Len(a) : SameCharModuloCaseSep(a[i], b[i])

KindWords == {
    <<"t","e","m","p","e","r","a","t","u","r","e">>,
    <<"h","u","m","i","d","i","t","y">>,
    <<"b","a","t","t","e","r","y">> }

TopicDerived(p) ==
    LET n    == Len(p.address)
        head == Len(MQTT_TOPIC_PREFIX)
        seg  == SubSeq(p.topic, head + 2, head + 1 + n)
        kind == SubSeq(p.topic, head + n + 3, Len(p.topic))
    IN  /\ Len(p.topic) > head + n + 2
        /\ SubSeq(p.topic, 1, head) = <<"s","e","n","s","o","r","s">>
        /\ p.topic[head + 1] = "/"
        /\ p.topic[head + n + 2] = "/"
        /\ \A i \in 1..n :
              /\ ~IsUpper(seg[i])
              /\ seg[i] # "-"
              /\ SameCharModuloCaseSep(seg[i], p.address[i])
        /\ kind \in KindWords
        /\ kind[1] = CASE p.sensor_type = "temperature" -> "t"
                        [] p.sensor_type = "humidity" -> "h"
                        [] p.sensor_type = "battery" -> "b"
        /\ \A b \in FormatAddresses \cup Addresses :
              SameModuloCaseSep(p.address, b) <=> Topic(b, p.sensor_type) = p.topic

C9_TopicDerivation == \A i \in 1..Len(published) : TopicDerived(published[i])

\* a publish for an address with uppercase letters and hyphens
C9_Witness ==
    \E i \in 1..Len(published) :
        /\ published[i].address = <<"F","-","0","E","-","9","d">>
        /\ published[i].topic =
              <<"s","e","n","s","o","r","s","/","f",":","0","e",":","9","d","/",
                "h","u","m","i","d","i","t","y">>

----------------------------------------------------------------------------
(* C10: temperature and humidity payloads.  The payload of every           *)
(* temperature or humidity publish is a decimal string with exactly one    *)
(* fraction digit, whose value is a tenth nearest to the value given       *)
(* (rounded, not truncated), whether the value is an int or a float.       *)
(* It fails for an int: round(value, 1) returns the int and str() renders  *)
(* it without a fraction.                                                  *)

IsDigit(c) == \E i \in 1..Len(DigitChars) : DigitChars[i] = c

DigitValue(c) == (CHOOSE i \in 1..Len(DigitChars) : DigitChars[i] = c) - 1

RECURSIVE DigitsValue(_)
DigitsValue(s) ==
    IF s = <<>> THEN 0
    ELSE 10 * DigitsValue(SubSeq(s, 1, Len(s) - 1)) + DigitValue(s[Len(s)])

\* an optional "-", one or more digits, ".", one digit
HasOneFractionDigit(s) ==
    LET body == IF s # <<>> /\ s[1] = "-" THEN Tail(s) ELSE s
    IN  /\ Len(body) >= 3
        /\ body[Len(body) - 1] = "."
        /\ \A i \in 1..Len(body) : i # Len(body) - 1 => IsDigit(body[i])

\* the magnitude of such a string, in tenths
TenthsOf(s) ==
    LET body == IF s[1] = "-" THEN Tail(s) ELSE s
    IN  10 * DigitsValue(SubSeq(body, 1, Len(body) - 2)) + DigitValue(body[Len(body)])

OneDecimalRounded(p) ==
    /\ HasOneFractionDigit(p.payload)
    /\ LET t == TenthsOf(p.payload)
           d == 10 * t - Abs(p.value.h)
       IN  /\ -5 <= d /\ d <= 5
           /\ (p.payload[1] = "-") => p.value.h < 0
           /\ (p.value.h < 0 /\ t > 0) => p.payload[1] = "-"

C10_OneDecimalPayload ==
    \A i \in 1..Len(published) :
        published[i].sensor_type # "battery" => OneDecimalRounded(published[i])

----------------------------------------------------------------------------
(* C11: battery payloads.  The payload of every battery publish is an      *)
(* integer string (an optional "-", then digits only, no fraction) whose   *)
(* value is the value given truncated toward zero.                         *)

IsIntegerString(s) ==
    LET body == IF s # <<>> /\ s[1] = "-" THEN Tail(s) ELSE s
    IN  /\ Len(body) >= 1
        /\ \A i \in 1..Len(body) : IsDigit(body[i])

\* the magnitude of an integer string
MagnitudeOf(s) == DigitsValue(IF s[1] = "-" THEN Tail(s) ELSE s)

TruncatedInteger(p) ==
    /\ IsIntegerString(p.payload)
    /\ LET m == MagnitudeOf(p.payload)
       IN  /\ 100 * m <= Abs(p.value.h)
           /\ Abs(p.value.h) < 100 * (m + 1)
           /\ (p.payload[1] = "-") <=> (p.value.h < 0 /\ m > 0)

C11_BatteryTruncated ==
    \A i \in 1..Len(published) :
        published[i].sensor_type = "battery" => TruncatedInteger(published[i])

\* 87.9 was published as 87
C11_Witness ==
    \E i \in 1..Len(published) :
        /\ published[i].sensor_type = "battery"
        /\ published[i].value = PyFloat(8790)
        /\ published[i].payload = <<"8", "7">>

----------------------------------------------------------------------------
(* C12: every publish call the gateway has made carries the retain flag.   *)

C12_AlwaysRetained == \A i \in 1..Len(published) : published[i].retain = TRUE

\* publishes of all three kinds, for more than one device, one of them
\* refused by the broker
C12_Witness ==
    /\ \A k \in {"temperature", "humidity", "battery"} :
          \E i \in 1..Len(published) : published[i].sensor_type = k
    /\ \E i, j \in 1..Len(published) : published[i].address # published[j].address
    /\ \E i \in 1..Len(published) : published[i].rc # MQTT_ERR_SUCCESS

----------------------------------------------------------------------------
(* C13: stop is idempotent and touches only the stop flag.  A step that is *)
(* neither a step of run or main nor a callback is a stop() call.  Every   *)
(* such step leaves the flag false and leaves the decoder maps, the client *)
(* handle, the broker connection, the scanner and the publish log as they  *)
(* were; and on a gateway whose flag is already false (as it is after a    *)
(* stop) it changes no field of the gateway at all.                        *)

IsStopStep == pc' = pc /\ adsSeen' = adsSeen /\ threads' = threads

C13_Step ==
    IsStopStep =>
        /\ running' = FALSE
        /\ UNCHANGED <<govee_parsers, thermopro_parsers, mqtt_client, broker>>
        /\ UNCHANGED <<nextId, published, last, scanner, events, exit_code>>
        /\ ~running => UNCHANGED gatewayVars

C13_StopIdempotent == [][C13_Step]_vars

\* stop was called during a run that holds a client handle and decoders, and
\* the gateway is in the stopped-flag state in which a further stop may come
C13_Witness ==
    /\ stopInRun
    /\ ~running
    /\ pc = "sleep"
    /\ mqtt_client = "client"
    /\ DOMAIN govee_parsers # {}
    /\ DOMAIN thermopro_parsers # {}

----------------------------------------------------------------------------
(* C14: fall-through on no readings.  Whenever the Govee result of an      *)
(* advertisement holds no reading, the ThermoPro decoder is tried for it.  *)
(* It fails: process_sensor_update returns True for any non-empty          *)
(* entity_values, so a Govee result holding only values without            *)
(* description or of another kind ends the callback.                       *)

C14_FallThroughOnNoReadings ==
    (HandledAd /\ ~HasReading(last.updates[1])) =>
        \E i \in 1..Len(last.tried) : last.tried[i] = "thermopro"

----------------------------------------------------------------------------
(* C15: delivery order is preserved.  Callbacks run one at a time; each    *)
(* one appends its publish calls to the end of the sequence of publish     *)
(* calls made so far, which it leaves as it was, all of them for the       *)
(* address it handles and in the order of the items of the decoder result; *)
(* no other step makes a publish call.  So the sequence of publish calls   *)
(* is the concatenation of the advertisements' publishes in delivery order.*)

C15_Step ==
    /\ IsCallbackStep =>
          LET new == SubSeq(published', Len(published) + 1, Len(published'))
              due == ReadingsTried(last')
          IN  /\ Len(published') >= Len(published)
              /\ SubSeq(published', 1, Len(published)) = published
              /\ last'.from = Len(published)
              /\ \A i \in 1..Len(new) : new[i].address = last'.address
              /\ [i \in 1..Len(new) |-> new[i].sensor_type]
                    = [i \in 1..Len(due) |-> due[i].device_class]
    /\ ~IsCallbackStep => published' = published

C15_DeliveryOrder == [][C15_Step]_vars

\* two advertisements of different addresses were published one after the
\* other, the later one with two readings
C15_Witness ==
    /\ last.from > 0
    /\ Len(published) = last.from + 2
    /\ published[last.from].address # last.address
    /\ published[last.from + 1].sensor_type = "temperature"
    /\ published[last.from + 2].sensor_type = "humidity"

----------------------------------------------------------------------------
(* detection_callback delivered from two threads.  The gateway is          *)
(* scanning; each thread handles one advertisement and may be preempted    *)
(* between any two lines of get_govee_parser / get_thermopro_parser and    *)
(* before the update() call.  A thread records, per vendor, what its       *)
(* membership test found, the decoder object it constructed and the        *)
(* decoder object its update() call went to (0: none).                     *)

Threads == {1, 2}

IdleThread ==
    [pc |-> "idle", address |-> <<>>, vendor |-> "govee",
     absent |-> [v \in Vendors |-> "untested"],
     made |-> [v \in Vendors |-> 0],
     parser |-> [v \in Vendors |-> 0]]

InitThreaded ==
    /\ pc = "sleep"
    /\ mqtt_client = "client"
    /\ govee_parsers = <<>>
    /\ thermopro_parsers = <<>>
    /\ running = TRUE
    /\ broker = [connected |-> TRUE, loop |-> TRUE]
    /\ scanner = "on"
    /\ nextId = 1
    /\ adsSeen = 0
    /\ published = <<>>
    /\ last = NoAd
    /\ events = <<"connect", "loop_start", "scanner_start">>
    /\ stopInRun = FALSE
    /\ threads = [t \in Threads |-> IdleThread]
    /\ exit_code = "none"

\* the step stores map m as the vendor's map
SetParsers(vendor, m) ==
    IF vendor = "govee"
    THEN govee_parsers' = m /\ thermopro_parsers' = thermopro_parsers
    ELSE thermopro_parsers' = m /\ govee_parsers' = govee_parsers

threadFrame == <<pc, mqtt_client, running, broker, scanner, last, events, stopInRun, exit_code>>

\* the scanner calls detection_callback(device, advertisement_data)
ThreadEnter(t) ==
    /\ threads[t].pc = "idle"
    /\ CallbackMayRun
    /\ \E address \in Addresses :
          threads' = [threads EXCEPT ![t].pc = "check", ![t].address = address]
    /\ adsSeen' = adsSeen + 1
    /\ UNCHANGED <<govee_parsers, thermopro_parsers, nextId, published>>
    /\ UNCHANGED threadFrame

\* if address not in self.<vendor>_parsers
ThreadCheck(t) ==
    LET th == threads[t]
        isAbsent == th.address \notin DOMAIN ParsersOf(th.vendor)
    IN  /\ th.pc = "check"
        /\ threads' = [threads EXCEPT
                          ![t].pc = IF isAbsent THEN "insert" ELSE "lookup",
                          ![t].absent[th.vendor] = IF isAbsent THEN "yes" ELSE "no"]
        /\ UNCHANGED <<govee_parsers, thermopro_parsers, nextId, adsSeen, published>>
        /\ UNCHANGED threadFrame

\* an insert that keeps an entry that is already there (dict.setdefault)
ThreadInsertIfAbsent(t) ==
    LET th == threads[t]
        m  == ParsersOf(th.vendor)
    IN  /\ th.pc = "insert"
        /\ SetParsers(th.vendor, m @@ (th.address :> NewParser(nextId)))
        /\ nextId' = nextId + 1
        /\ threads' = [threads EXCEPT ![t].pc = "lookup", ![t].made[th.vendor] = nextId]
        /\ UNCHANGED <<adsSeen, published>>
        /\ UNCHANGED threadFrame

\* self.<vendor>_parsers[address] = <Vendor>BluetoothDeviceData()
ThreadInsert(t) ==
    LET th == threads[t]
        m  == ParsersOf(th.vendor)
    IN  /\ th.pc = "insert"
        /\ SetParsers(th.vendor, (th.address :> NewParser(nextId)) @@ m)
        /\ nextId' = nextId + 1
        /\ threads' = [threads EXCEPT ![t].pc = "lookup", ![t].made[th.vendor] = nextId]
        /\ UNCHANGED <<adsSeen, published>>
        /\ UNCHANGED threadFrame

\* return self.<vendor>_parsers[address]
ThreadLookup(t) ==
    LET th == threads[t]
    IN  /\ th.pc = "lookup"
        /\ threads' = [threads EXCEPT
                          ![t].pc = "update",
                          ![t].parser[th.vendor] = ParsersOf(th.vendor)[th.address].id]
        /\ UNCHANGED <<govee_parsers, thermopro_parsers, nextId, adsSeen, published>>
        /\ UNCHANGED threadFrame

\* parser.update(service_info) on the object the thread holds, which counts in
\* the map only if the map still holds that object
FeedHeld(parsers, address, id) ==
    IF parsers[address].id = id THEN FeedParser(parsers, address) ELSE parsers

\* parser.update(service_info) and process_sensor_update; then return, or go
\* on to the ThermoPro decoder
ThreadUpdate(t) ==
    LET th == threads[t]
    IN  /\ th.pc = "update"
        /\ \E update \in Updates : \E rcs \in [1..Len(update) -> ResultCodes] :
              LET r == ProcessSensorUpdate(th.address, update, rcs)
              IN  /\ published' = published \o r.pubs
                  /\ threads' =
                        IF th.vendor = "govee" /\ ~r.ret
                        THEN [threads EXCEPT ![t].pc = "check", ![t].vendor = "thermopro"]
                        ELSE [threads EXCEPT ![t].pc = "done"]
        /\ SetParsers(th.vendor,
                      FeedHeld(ParsersOf(th.vendor), th.address, th.parser[th.vendor]))
        /\ UNCHANGED <<nextId, adsSeen>>
        /\ UNCHANGED threadFrame

NextThreaded ==
    \E t \in Threads :
        \/ ThreadEnter(t)
        \/ ThreadCheck(t)
        \/ ThreadInsert(t)
        \/ ThreadLookup(t)
        \/ ThreadUpdate(t)

ThreadedSpec == InitThreaded /\ [][NextThreaded]_vars

----------------------------------------------------------------------------
(* C16: uniqueness of decoder state rests on serialized delivery.  Two     *)
(* threads have raced on a vendor when both handle the same address and    *)
(* both found it absent from the vendor's map (so both membership tests    *)
(* ran before either insert).                                              *)
(* As claimed: after such a race the two update() calls went to different  *)
(* decoder objects.  That fails when the thread that inserted first looks  *)
(* the entry up (the return line) only after the other thread's insert:    *)
(* both calls then go to the object inserted last.                         *)

Raced(v, t1, t2) ==
    /\ t1 # t2
    /\ threads[t1].address = threads[t2].address
    /\ threads[t1].absent[v] = "yes"
    /\ threads[t2].absent[v] = "yes"

BothLookedUp(v, t1, t2) == threads[t1].parser[v] # 0 /\ threads[t2].parser[v] # 0

C16_RaceFeedsDifferentObjects ==
    \A v \in Vendors : \A t1, t2 \in Threads :
        (Raced(v, t1, t2) /\ BothLookedUp(v, t1, t2)) =>
            threads[t1].parser[v] # threads[t2].parser[v]

(* C16, amended: after such a race two decoder objects have been           *)
(* constructed for the one (address, vendor) pair and the map holds the    *)
(* one inserted last, the other being overwritten; each update() call went *)
(* to one of the two objects, never to one older than the caller's own;    *)
(* so the two calls went either to the two different objects or both to    *)
(* the object inserted last.  Every insert stores a fresh object over      *)
(* whatever the map held.                                                  *)

Later(a, b) == IF a > b THEN a ELSE b

C16_AfterRace ==
    \A v \in Vendors : \A t1, t2 \in Threads :
        LET a  == threads[t1].address
            m1 == threads[t1].made[v]
            m2 == threads[t2].made[v]
            p1 == threads[t1].parser[v]
            p2 == threads[t2].parser[v]
        IN  (Raced(v, t1, t2) /\ m1 # 0 /\ m2 # 0) =>
                /\ m1 # m2
                /\ ParsersOf(v)[a].id = Later(m1, m2)
                /\ p1 # 0 => (p1 \in {m1, m2} /\ p1 >= m1)
                /\ p2 # 0 => (p2 \in {m1, m2} /\ p2 >= m2)
                /\ (p1 # 0 /\ p2 # 0) => (p1 # p2 \/ (p1 = Later(m1, m2) /\ p2 = p1))

C16_InsertStep ==
    \A t \in Threads :
        (threads[t].pc = "insert" /\ threads'[t].pc = "lookup") =>
            LET v == threads[t].vendor
                a == threads[t].address
            IN  /\ a \in DOMAIN ParsersOfNext(v)
                /\ ParsersOfNext(v)[a].id = nextId
                /\ nextId' = nextId + 1
                /\ \A b \in DOMAIN ParsersOf(v) : b # a =>
                      (b \in DOMAIN ParsersOfNext(v) /\ ParsersOfNext(v)[b] = ParsersOf(v)[b])

C16_RaceOverwrites == []C16_AfterRace /\ [][C16_InsertStep]_vars

\* a race after which both update() calls went to the same object, the one
\* inserted last, while two objects were constructed
C16_Witness ==
    \E t1, t2 \in Threads :
        /\ Raced("govee", t1, t2)
        /\ threads[t1].made["govee"] = 1
        /\ threads[t2].made["govee"] = 2
        /\ threads[t1].parser["govee"] = 2
        /\ threads[t2].parser["govee"] = 2
        /\ threads[t1].pc = "done"
        /\ threads[t2].pc = "done"
        /\ govee_parsers[threads[t1].address].id = 2

----------------------------------------------------------------------------
(* C17: publishes happen only while scanning.  Every publish call was made *)
(* on a client handle that was set and with the broker connected; and a    *)
(* step that makes a publish call starts with the scanner on, the handle   *)
(* set, the broker connected with its loop running, and loop_stop not yet  *)
(* called.                                                                 *)

C17_PublishedOnLiveClient ==
    \A i \in 1..Len(published) :
        published[i].handle = "client" /\ published[i].connected

C17_Step ==
    published' # published =>
        /\ scanner = "on"
        /\ Called("scanner_start") /\ ~Called("scanner_stop")
        /\ mqtt_client = "client"
        /\ broker.connected /\ broker.loop
        /\ ~Called("loop_stop") /\ ~Called("disconnect")

C17_PublishOnlyWhileScanning == []C17_PublishedOnLiveClient /\ [][C17_Step]_vars

\* a run that published and has since released the broker and returned
C17_Witness ==
    /\ Len(published) > 0
    /\ exit_code = "0"
    /\ ~broker.connected
    /\ Called("disconnect")

----------------------------------------------------------------------------
(* C18: decoder maps are keyed by the address as delivered, topics by the  *)
(* normalized address.  The decoders a callback used are the entries       *)
(* under the very address it was given; two different keys of a map, also  *)
(* when they differ only in letter case or in "-" against ":", hold        *)
(* different decoder objects; and two publishes of the same kind whose     *)
(* addresses differ at most in that way have the same topic.               *)

C18_RawKeysNormalizedTopics ==
    /\ HandledAd =>
          \A i \in 1..Len(last.tried) :
              /\ last.address \in DOMAIN ParsersOf(last.tried[i])
              /\ ParsersOf(last.tried[i])[last.address].id = last.insts[i]
    /\ \A v \in Vendors : \A a, b \in DOMAIN ParsersOf(v) :
          a # b => ParsersOf(v)[a].id # ParsersOf(v)[b].id
    /\ \A i, j \in 1..Len(published) :
          (/\ SameModuloCaseSep(published[i].address, published[j].address)
           /\ published[i].sensor_type = published[j].sensor_type)
          => published[i].topic = published[j].topic

\* A4-01 and a4:01 have a Govee decoder each, and both were published to the
\* same topic
C18_Witness ==
    LET a == <<"A","4","-","0","1">>
        b == <<"a","4",":","0","1">>
    IN  /\ a \in DOMAIN govee_parsers
        /\ b \in DOMAIN govee_parsers
        /\ govee_parsers[a].id # govee_parsers[b].id
        /\ \E i, j \in 1..Len(published) :
              /\ published[i].address = a
              /\ published[j].address = b
              /\ published[i].topic = published[j].topic

====
